---- MODULE Spec2Model ----
(***************************************************************************)
(* State-machine model of the two pgbench log analysis scripts,           *)
(* scripts/analyze_results.py ("simple") and                               *)
(* scripts/analyze_results_improved.py ("detailed").                       *)
(*                                                                         *)
(* A log text is a sequence of lines.  A line is a marker or phrase (key)  *)
(* followed by the maximal run of characters of [0-9.] that follows it     *)
(* (tok, <<>> when none follows) and a flag telling whether " ms" follows  *)
(* that run.  Numbers are exact rationals <<numerator, denominator>> with  *)
(* a positive denominator; the thresholds the scripts compare against      *)
(* (95, 99, 50, 25, 0) are decided by cross-multiplication.                *)
(***************************************************************************)
EXTENDS Integers, Sequences, FiniteSets, TLC

VARIABLES
    script,            \* which script is run: "simple" | "detailed"
    argc,              \* len(sys.argv)
    fs,                \* the six log files: [exists, content]
    pc,                \* position in main (or in the function harness)
    idx,               \* loop counter of the scenario / file loop
    reads,             \* per log file: how many times it was opened and read
    all_results,       \* detailed main: all_results[test_name][conn_type]
    direct_result,     \* simple main: direct_result / overhead_direct / extreme_direct
    pgbouncer_result,  \* simple main: pgbouncer_result / overhead_pgbouncer / extreme_pgbouncer
    ret,               \* function harness: what the parse call returned or raised
    report,            \* lines written to the report file so far
    reportState,       \* "unopened" | "open" | "closed"
    stdout,            \* lines printed to standard output
    exc,               \* the exception that ended the run, "none" when none
    excFile,           \* the log file whose parse raised, NoFile when none
    exitStatus         \* -1 while running, then the process exit status

vars == <<script, argc, fs, pc, idx, reads, all_results, direct_result,
          pgbouncer_result, ret, report, reportState, stdout, exc, excFile,
          exitStatus>>

----------------------------------------------------------------------------
(* Bounds of the input enumeration *)

MaxTokLen == 3
MaxQuarters == 8
MaxClients == 5
MaxTxPerClient == 4
MaxProcessed == 21
MaxErrLines == 1

----------------------------------------------------------------------------
(* Characters, numbers *)

DigitSeq == <<"0", "1", "2", "3", "4", "5", "6", "7", "8", "9">>

Digits == {DigitSeq[i] : i \in 1..10}

IsDigit(c) == c \in Digits

DigitVal(c) == (CHOOSE i \in 1..10 : DigitSeq[i] = c) - 1

RECURSIVE NumVal(_)
NumVal(ds) ==
    IF ds = <<>> THEN 0
    ELSE 10 * NumVal(SubSeq(ds, 1, Len(ds) - 1)) + DigitVal(ds[Len(ds)])

RECURSIVE Pow10(_)
Pow10(k) == IF k = 0 THEN 1 ELSE 10 * Pow10(k - 1)

RECURSIVE ToDigits(_)
ToDigits(n) ==
    IF n < 10 THEN <<DigitSeq[n + 1]>>
    ELSE Append(ToDigits(n \div 10), DigitSeq[(n % 10) + 1])

Zero == <<0, 1>>

RatInt(n) == <<n, 1>>

RatLT(a, b) == a[1] * b[2] < b[1] * a[2]

RatEQ(a, b) == a[1] * b[2] = b[1] * a[2]

RatGT(a, b) == RatLT(b, a)

RatGE(a, b) == ~RatLT(a, b)

IsZero(a) == a[1] = 0

RatSub(a, b) == <<a[1] * b[2] - b[1] * a[2], a[2] * b[2]>>

RatMul100(a) == <<100 * a[1], a[2]>>

\* a / b for b # 0 (the operands are never negative)
RatDiv(a, b) == <<a[1] * b[2], a[2] * b[1]>>

Opt(cond, s) == IF cond THEN s ELSE <<>>

----------------------------------------------------------------------------
(* float() and int() on a captured token *)

DotCount(tok) == Cardinality({i \in 1..Len(tok) : tok[i] = "."})

DigitCount(tok) == Cardinality({i \in 1..Len(tok) : IsDigit(tok[i])})

\* float(s) for s made of digits and dots: accepted exactly when s holds at
\* most one dot and at least one digit; otherwise ValueError
FloatOK(tok) == DotCount(tok) <= 1 /\ DigitCount(tok) >= 1

FloatVal(tok) ==
    LET ds == SelectSeq(tok, IsDigit)
        dots == {i \in 1..Len(tok) : tok[i] = "."}
        frac == IF dots = {} THEN 0 ELSE Len(tok) - (CHOOSE i \in dots : TRUE)
    IN  <<NumVal(ds), Pow10(frac)>>

IntVal(ds) == NumVal(ds)

----------------------------------------------------------------------------
(* re.search on the log text *)

NoMatch == [found |-> FALSE, tok |-> <<>>]

Match(tok) == [found |-> TRUE, tok |-> tok]

\* re.search(key + r'([0-9.]+)', content): the first occurrence of the marker
\* that is followed by at least one character of [0-9.]
SearchFloat(content, key) ==
    LET hits == {i \in 1..Len(content) :
                    content[i].key = key /\ content[i].tok # <<>>}
    IN  IF hits = {} THEN NoMatch
        ELSE Match(content[CHOOSE i \in hits : \A j \in hits : i <= j].tok)

\* re.search(key + r'([0-9.]+) ms', content): as above, and " ms" follows
SearchFloatMs(content, key) ==
    LET hits == {i \in 1..Len(content) :
                    content[i].key = key /\ content[i].tok # <<>> /\ content[i].ms}
    IN  IF hits = {} THEN NoMatch
        ELSE Match(content[CHOOSE i \in hits : \A j \in hits : i <= j].tok)

RECURSIVE DigitPrefix(_)
DigitPrefix(tok) ==
    IF tok = <<>> \/ ~IsDigit(Head(tok)) THEN <<>>
    ELSE <<Head(tok)>> \o DigitPrefix(Tail(tok))

\* re.search(key + r'([0-9]+)', content): the first occurrence of the marker
\* that is followed by a digit; the group is the run of digits
SearchInt(content, key) ==
    LET hits == {i \in 1..Len(content) :
                    content[i].key = key /\ DigitPrefix(content[i].tok) # <<>>}
    IN  IF hits = {} THEN NoMatch
        ELSE Match(DigitPrefix(content[CHOOSE i \in hits : \A j \in hits : i <= j].tok))

FloatField(m) == IF m.found THEN FloatVal(m.tok) ELSE Zero

IntField(m) == IF m.found THEN IntVal(m.tok) ELSE 0

Raises(m) == m.found /\ ~FloatOK(m.tok)

----------------------------------------------------------------------------
(* Substrings and case of the phrases a log line can hold *)

Lower(key) ==
    CASE key = "Connection Refused" -> "connection refused"
      [] key = "Could Not Connect" -> "could not connect"
      [] key = "Timeout" -> "timeout"
      [] OTHER -> key

\* keyword in key (str.__contains__, case-sensitive)
Contains(key, keyword) ==
    CASE keyword = "FATAL" -> key \in {"FATAL", "FATAL:"}
      [] keyword = "ERROR" -> key \in {"ERROR", "ERROR:"}
      [] keyword = "failed" -> key \in {"failed", "authentication failed"}
      [] keyword = "connection refused" -> key = "connection refused"
      [] keyword = "timeout" -> key = "timeout"
      [] OTHER -> key = keyword

InContent(content, keyword) ==
    \E i \in 1..Len(content) : Contains(content[i].key, keyword)

\* len(re.findall(alternatives, content, re.IGNORECASE))
CountIgnoreCase(content, alternatives) ==
    Cardinality({i \in 1..Len(content) : Lower(content[i].key) \in alternatives})

\* len(re.findall(literal, content))
CountLiteral(content, literal) ==
    Cardinality({i \in 1..Len(content) : content[i].key = literal})

----------------------------------------------------------------------------
(* Division.  A rational with denominator 0 stands for a raised             *)
(* ZeroDivisionError; every caller tests Raised before it uses the value.   *)

DivError == <<0, 0>>

Raised(r) == r[2] = 0

\* n / d on two non-negative integers
TrueDiv(n, d) == IF d = 0 THEN DivError ELSE <<n, d>>

\* a / b on two non-negative floats
TrueDivRat(a, b) == IF IsZero(b) THEN DivError ELSE RatDiv(a, b)

Times100(r) == IF Raised(r) THEN DivError ELSE RatMul100(r)

Max(a, b) == IF a >= b THEN a ELSE b

----------------------------------------------------------------------------
(* analyze_results.py: parse_pgbench_output *)

Files == {"overhead", "concurrent", "extreme"} \X {"direct", "pgbouncer"}

NoFile == <<"", "">>

SimpleNone == [tag |-> "None", tps |-> Zero, latency |-> Zero, has_errors |-> FALSE]

error_keywords == <<"FATAL", "ERROR", "failed", "connection refused">>

has_errors_of(content) ==
    \E k \in 1..Len(error_keywords) : InContent(content, error_keywords[k])

parse_pgbench_output(file) ==
    IF ~file.exists THEN SimpleNone
    ELSE LET content == file.content
             tps_match == SearchFloat(content, "tps = ")
             latency_match == SearchFloatMs(content, "latency average = ")
         IN  IF Raises(tps_match) \/ Raises(latency_match)
             THEN [SimpleNone EXCEPT !.tag = "ValueError"]
             ELSE [tag |-> "record",
                   tps |-> FloatField(tps_match),
                   latency |-> FloatField(latency_match),
                   has_errors |-> has_errors_of(content)]

----------------------------------------------------------------------------
(* analyze_results_improved.py: parse_pgbench_output_detailed *)

ErrorTypeNames == <<"connection_refused", "too_many_clients", "timeout_errors",
                    "authentication_failed", "fatal_errors", "generic_errors">>

error_types_of(content) ==
    [connection_refused |->
        CountIgnoreCase(content, {"connection refused", "could not connect"}),
     too_many_clients |->
        CountIgnoreCase(content, {"too many clients", "connection limit"}),
     timeout_errors |->
        CountIgnoreCase(content, {"timeout", "timed out"}),
     authentication_failed |->
        CountIgnoreCase(content, {"authentication failed", "password authentication"}),
     fatal_errors |-> CountLiteral(content, "FATAL:"),
     generic_errors |-> CountLiteral(content, "ERROR:")]

NoErrors == [connection_refused |-> 0, too_many_clients |-> 0, timeout_errors |-> 0,
             authentication_failed |-> 0, fatal_errors |-> 0, generic_errors |-> 0]

\* SuccessRate without its guard
SuccessRate_Unguarded(transactions_processed, total_transactions_attempted) ==
    Times100(TrueDiv(transactions_processed, total_transactions_attempted))

\* success_rate = 0; if total_transactions_attempted > 0: (processed / total) * 100
SuccessRate(transactions_processed, total_transactions_attempted) ==
    IF total_transactions_attempted > 0
    THEN Times100(TrueDiv(transactions_processed, total_transactions_attempted))
    ELSE Zero

\* 'error_rate': 100 - success_rate
ErrorRate(success_rate) ==
    IF Raised(success_rate) THEN DivError ELSE RatSub(RatInt(100), success_rate)

\* 'timeout_rate': (timeout_errors / max(1, total_transactions_attempted)) * 100
TimeoutRate(timeout_errors, total_transactions_attempted) ==
    Times100(TrueDiv(timeout_errors, Max(1, total_transactions_attempted)))

\* HasCriticalErrors with the threshold itself counted as critical
HasCriticalErrors_Inclusive(error_types, success_rate) ==
    \/ error_types.connection_refused > 0
    \/ error_types.too_many_clients > 0
    \/ error_types.fatal_errors > 0
    \/ ~RatGT(success_rate, RatInt(95))

HasCriticalErrors(error_types, success_rate) ==
    \/ error_types.connection_refused > 0
    \/ error_types.too_many_clients > 0
    \/ error_types.fatal_errors > 0
    \/ RatLT(success_rate, RatInt(95))

\* PerformanceConsistency with the thresholds themselves in the worse rating
PerformanceConsistency_Inclusive(latency_stddev, latency) ==
    IF RatGT(latency_stddev, Zero) /\ RatGT(latency, Zero)
    THEN LET cv == Times100(TrueDivRat(latency_stddev, latency))
         IN  IF Raised(cv) THEN "ZeroDivisionError"
             ELSE IF RatGE(cv, RatInt(50)) THEN "Poor"
             ELSE IF RatGE(cv, RatInt(25)) THEN "Fair"
             ELSE "Good"
    ELSE "Good"

PerformanceConsistency(latency_stddev, latency) ==
    IF RatGT(latency_stddev, Zero) /\ RatGT(latency, Zero)
    THEN LET cv == Times100(TrueDivRat(latency_stddev, latency))
         IN  IF Raised(cv) THEN "ZeroDivisionError"
             ELSE IF RatGT(cv, RatInt(50)) THEN "Poor"
             ELSE IF RatGT(cv, RatInt(25)) THEN "Fair"
             ELSE "Good"
    ELSE "Good"

DetailedNone ==
    [tag |-> "None", tps |-> Zero, latency |-> Zero, latency_stddev |-> Zero,
     performance_consistency |-> "Good",
     total_transactions_attempted |-> 0, transactions_processed |-> 0,
     success_rate |-> Zero, error_rate |-> Zero,
     connection_rejections |-> 0, timeout_rate |-> Zero,
     error_types |-> NoErrors, has_critical_errors |-> FALSE, has_timeouts |-> FALSE,
     clients |-> 0, transactions_per_client |-> 0]

parse_pgbench_output_detailed(file) ==
    IF ~file.exists THEN DetailedNone
    ELSE LET content == file.content
             tps_match == SearchFloat(content, "tps = ")
             latency_match == SearchFloatMs(content, "latency average = ")
             latency_stddev_match == SearchFloatMs(content, "latency stddev = ")
             clients_match == SearchInt(content, "number of clients: ")
             transactions_match ==
                 SearchInt(content, "number of transactions per client: ")
             transactions_processed_match ==
                 SearchInt(content, "number of transactions actually processed: ")
         IN  IF Raises(tps_match) \/ Raises(latency_match) \/ Raises(latency_stddev_match)
             THEN [DetailedNone EXCEPT !.tag = "ValueError"]
             ELSE LET tps == FloatField(tps_match)
                      latency == FloatField(latency_match)
                      latency_stddev == FloatField(latency_stddev_match)
                      clients == IntField(clients_match)
                      transactions_per_client == IntField(transactions_match)
                      total_transactions_attempted == clients * transactions_per_client
                      transactions_processed == IntField(transactions_processed_match)
                      success_rate ==
                          SuccessRate(transactions_processed, total_transactions_attempted)
                      error_types == error_types_of(content)
                      timeout_rate ==
                          TimeoutRate(error_types.timeout_errors,
                                      total_transactions_attempted)
                      performance_consistency ==
                          PerformanceConsistency(latency_stddev, latency)
                  IN  IF \/ Raised(success_rate)
                         \/ Raised(timeout_rate)
                         \/ performance_consistency = "ZeroDivisionError"
                      THEN [DetailedNone EXCEPT !.tag = "ZeroDivisionError"]
                      ELSE [tag |-> "record",
                            tps |-> tps,
                            latency |-> latency,
                            latency_stddev |-> latency_stddev,
                            performance_consistency |-> performance_consistency,
                            total_transactions_attempted |-> total_transactions_attempted,
                            transactions_processed |-> transactions_processed,
                            success_rate |-> success_rate,
                            error_rate |-> ErrorRate(success_rate),
                            connection_rejections |->
                                error_types.connection_refused
                                    + error_types.too_many_clients,
                            timeout_rate |-> timeout_rate,
                            error_types |-> error_types,
                            has_critical_errors |->
                                HasCriticalErrors(error_types, success_rate),
                            has_timeouts |->
                                \/ error_types.timeout_errors > 0
                                \/ \E i \in 1..Len(content) :
                                      Contains(Lower(content[i].key), "timeout"),
                            clients |-> clients,
                            transactions_per_client |-> transactions_per_client]

----------------------------------------------------------------------------
(* Report lines.  One record per f.write call: the text template (kind),    *)
(* the scenario and connection type it is about, and the numbers formatted  *)
(* into it (args, rationals flattened to numerator, denominator).  A        *)
(* heading and the rule under it are one record.                            *)

Scenarios == <<"overhead", "concurrent", "extreme">>

ConnTypes == <<"direct", "pgbouncer">>

L(kind, scen, strat, args) ==
    [kind |-> kind, scen |-> scen, strat |-> strat, args |-> args]

RECURSIVE Flatten(_)
Flatten(ss) == IF ss = <<>> THEN <<>> ELSE Head(ss) \o Flatten(Tail(ss))

----------------------------------------------------------------------------
(* analyze_results.py: main, the text it writes *)

SimpleHeader ==
    <<L("PgBouncer Performance Test Results", "", "", <<>>),
      L("Generated:", "", "", <<>>)>>

\* a truthy result without errors
SimpleOK(result) == result.tag = "record" /\ ~result.has_errors

\* lines 73-95 of one iteration of the scenario loop
SimpleScenarioLines(test_name, direct, pgbouncer) ==
    (IF SimpleOK(direct)
     THEN <<L("Direct Connection:", test_name, "direct", <<>>),
            L("  TPS:", test_name, "direct", direct.tps),
            L("  Latency:", test_name, "direct", direct.latency)>>
     ELSE <<L("Direct Connection: FAILED or ERRORS", test_name, "direct", <<>>)>>)
    \o
    (IF SimpleOK(pgbouncer)
     THEN <<L("PgBouncer Connection:", test_name, "pgbouncer", <<>>),
            L("  TPS:", test_name, "pgbouncer", pgbouncer.tps),
            L("  Latency:", test_name, "pgbouncer", pgbouncer.latency)>>
          \o Opt(SimpleOK(direct) /\ RatGT(direct.tps, Zero),
                 <<L("  TPS Improvement:", test_name, "pgbouncer",
                     RatMul100(RatSub(TrueDivRat(pgbouncer.tps, direct.tps),
                                      RatInt(1))))>>)
          \o Opt(SimpleOK(direct) /\ RatGT(direct.latency, Zero),
                 <<L("  Latency Improvement:", test_name, "pgbouncer",
                     RatMul100(RatSub(RatInt(1),
                                      TrueDivRat(pgbouncer.latency, direct.latency))))>>)
     ELSE <<L("PgBouncer Connection: FAILED or ERRORS", test_name, "pgbouncer", <<>>)>>)

\* lines 104-111: [lines written, raised]
SimpleOverheadFindings(overhead_direct, overhead_pgbouncer) ==
    IF SimpleOK(overhead_direct) /\ SimpleOK(overhead_pgbouncer)
    THEN LET tps_ratio == TrueDivRat(overhead_pgbouncer.tps, overhead_direct.tps)
             latency_ratio ==
                 TrueDivRat(overhead_direct.latency, overhead_pgbouncer.latency)
             head == <<L("Connection Overhead Test", "overhead", "", <<>>),
                       L("- PgBouncer achieved x the throughput", "overhead", "",
                         tps_ratio)>>
         IN  IF Raised(tps_ratio) \/ Raised(latency_ratio)
             THEN [lines |-> <<>>, raised |-> TRUE]
             ELSE IF Raised(TrueDivRat(RatInt(1), latency_ratio))
             THEN [lines |-> head, raised |-> TRUE]
             ELSE [lines |-> head \o
                       <<L("- PgBouncer reduced latency by", "overhead", "",
                           RatMul100(RatSub(RatInt(1),
                                            TrueDivRat(RatInt(1), latency_ratio)))),
                         L("- This demonstrates the massive overhead", "overhead", "",
                           <<>>)>>,
                   raised |-> FALSE]
    ELSE [lines |-> <<>>, raised |-> FALSE]

\* lines 117-124
SimpleExtremeFindings(extreme_direct, extreme_pgbouncer) ==
    Opt(extreme_direct.tag = "record" /\ extreme_direct.has_errors,
        <<L("High Concurrency Test (1000 clients):", "extreme", "", <<>>),
          L("- Direct connections FAILED as expected (connection limit exceeded)",
            "extreme", "direct", <<>>)>>
        \o Opt(SimpleOK(extreme_pgbouncer),
               <<L("- PgBouncer successfully handled all 1000 clients",
                   "extreme", "pgbouncer", <<>>),
                 L("- Achieved TPS with 1000 concurrent clients",
                   "extreme", "pgbouncer", extreme_pgbouncer.tps)>>)
        \o <<L("- This demonstrates PgBouncer's ability to handle connection multiplexing",
               "extreme", "", <<>>)>>)

SimpleConclusion ==
    <<L("CONCLUSION:", "", "", <<>>),
      L("PgBouncer provides significant benefits:", "", "", <<>>),
      L("1. Eliminates connection establishment overhead", "", "", <<>>),
      L("2. Enables high concurrency beyond database limits", "", "", <<>>),
      L("3. Improves both throughput and latency", "", "", <<>>),
      L("4. Provides reliable connection pooling and queuing", "", "", <<>>)>>

----------------------------------------------------------------------------
(* analyze_results_improved.py: generate_reliability_report and the         *)
(* sections of main                                                         *)

DetailedHeader ==
    <<L("PgBouncer Performance Test - DETAILED ANALYSIS", "", "", <<>>),
      L("Generated:", "", "", <<>>),
      L("This analysis includes comprehensive reliability metrics:", "", "", <<>>),
      L("Success/Error Rates", "", "", <<>>),
      L("Connection Rejection Counts", "", "", <<>>),
      L("Timeout Rates", "", "", <<>>),
      L("Error Type Classification", "", "", <<>>),
      L("Performance Consistency", "", "", <<>>)>>

ErrorCount(error_types, name) ==
    CASE name = "connection_refused" -> error_types.connection_refused
      [] name = "too_many_clients" -> error_types.too_many_clients
      [] name = "timeout_errors" -> error_types.timeout_errors
      [] name = "authentication_failed" -> error_types.authentication_failed
      [] name = "fatal_errors" -> error_types.fatal_errors
      [] name = "generic_errors" -> error_types.generic_errors

\* f"  Performance Consistency: {result['performance_consistency']}"
ConsistencyLine(performance_consistency) ==
    CASE performance_consistency = "Good" -> "  Performance Consistency: Good"
      [] performance_consistency = "Fair" -> "  Performance Consistency: Fair"
      [] performance_consistency = "Poor" -> "  Performance Consistency: Poor"

\* AssessmentLabel without the override by has_critical_errors
AssessmentLabel_RateOnly(result) ==
    IF RatGE(result.success_rate, RatInt(99)) THEN "EXCELLENT RELIABILITY"
    ELSE IF RatGE(result.success_rate, RatInt(95)) THEN "GOOD RELIABILITY"
    ELSE "POOR RELIABILITY"

\* the overall assessment, lines 147-155
AssessmentLabel(result) ==
    IF result.has_critical_errors THEN "CRITICAL ERRORS DETECTED"
    ELSE IF RatGE(result.success_rate, RatInt(99)) THEN "EXCELLENT RELIABILITY"
    ELSE IF RatGE(result.success_rate, RatInt(95)) THEN "GOOD RELIABILITY"
    ELSE "POOR RELIABILITY"

\* NoDataLine that skips a missing result silently
NoDataLine_Skipped(test_name, connection_type) == <<>>

\* if result is None: f.write(f"{connection_type.title()}: NO DATA\n"); continue
NoDataLine(test_name, connection_type) ==
    <<L("NO DATA", test_name, connection_type, <<>>)>>

\* the body of the loop over results.items(), lines 117-155
ReliabilityBlock(test_name, connection_type, result) ==
    IF result.tag = "None"
    THEN NoDataLine(test_name, connection_type)
    ELSE <<L("Connection:", test_name, connection_type, <<>>),
           L("  Success Rate:", test_name, connection_type, result.success_rate),
           L("  Error Rate:", test_name, connection_type, result.error_rate),
           L("  Transactions:", test_name, connection_type,
             <<result.transactions_processed, result.total_transactions_attempted>>)>>
         \o Opt(result.connection_rejections > 0,
                <<L("  Connection Rejections:", test_name, connection_type,
                    <<result.connection_rejections>>)>>)
         \o Opt(RatGT(result.timeout_rate, Zero),
                <<L("  Timeout Rate:", test_name, connection_type, result.timeout_rate)>>)
         \o Opt(\E k \in 1..6 : ErrorCount(result.error_types, ErrorTypeNames[k]) > 0,
                <<L("  Error Breakdown:", test_name, connection_type, <<>>)>>
                \o Flatten([k \in 1..6 |->
                       Opt(ErrorCount(result.error_types, ErrorTypeNames[k]) > 0,
                           <<L(ErrorTypeNames[k], test_name, connection_type,
                               <<ErrorCount(result.error_types, ErrorTypeNames[k])>>)>>)]))
         \o <<L(ConsistencyLine(result.performance_consistency),
                test_name, connection_type, <<>>)>>
         \o Opt(RatGT(result.latency_stddev, Zero),
                <<L("  Latency Std Dev:", test_name, connection_type,
                    result.latency_stddev)>>)
         \o <<L(AssessmentLabel(result), test_name, connection_type, <<>>)>>

\* generate_reliability_report(results, test_name, f); items is results.items()
generate_reliability_report(items, test_name) ==
    <<L("RELIABILITY METRICS", test_name, "", <<>>)>>
    \o Flatten([k \in 1..Len(items) |->
           ReliabilityBlock(test_name, items[k][1], items[k][2])])

ItemsOf(results, test_name) ==
    [k \in 1..2 |-> <<ConnTypes[k], results[<<test_name, ConnTypes[k]>>]>>]

\* lines 204-215
PerformanceSummary(results) ==
    <<L("PERFORMANCE SUMMARY", "", "", <<>>)>>
    \o Flatten([s \in 1..3 |->
           <<L("TEST", Scenarios[s], "", <<>>)>>
           \o Flatten([k \in 1..2 |->
                  LET result == results[<<Scenarios[s], ConnTypes[k]>>]
                  IN  IF result.tag = "record"
                         /\ RatGE(result.success_rate, RatInt(95))
                      THEN <<L("TPS, ms avg", Scenarios[s], ConnTypes[k],
                               result.tps \o result.latency)>>
                      ELSE <<L("FAILED or POOR RELIABILITY", Scenarios[s],
                               ConnTypes[k], <<>>)>>])])

\* lines 218-222
ReliabilityAnalysis(results) ==
    <<L("RELIABILITY ANALYSIS", "", "", <<>>)>>
    \o Flatten([s \in 1..3 |->
           generate_reliability_report(ItemsOf(results, Scenarios[s]), Scenarios[s])])

\* lines 225-239
ComparativeReliability(results) ==
    <<L("COMPARATIVE RELIABILITY", "", "", <<>>)>>
    \o Flatten([s \in 1..3 |->
           LET direct == results[<<Scenarios[s], "direct">>]
               pgbouncer == results[<<Scenarios[s], "pgbouncer">>]
           IN  Opt(direct.tag = "record" /\ pgbouncer.tag = "record",
                   <<L("Test Comparison:", Scenarios[s], "", <<>>),
                     L("  Direct Success Rate:", Scenarios[s], "direct",
                       direct.success_rate),
                     L("  PgBouncer Success Rate:", Scenarios[s], "pgbouncer",
                       pgbouncer.success_rate),
                     L("  Reliability Improvement:", Scenarios[s], "",
                       RatSub(pgbouncer.success_rate, direct.success_rate))>>
                   \o Opt(direct.connection_rejections > pgbouncer.connection_rejections,
                          <<L("  PgBouncer eliminated connection rejections",
                              Scenarios[s], "",
                              <<direct.connection_rejections
                                  - pgbouncer.connection_rejections>>)>>))])

----------------------------------------------------------------------------
(* The log files a run can find *)

Line(key, tok, ms) == [key |-> key, tok |-> tok, ms |-> ms]

Phrase(key) == Line(key, <<>>, FALSE)

Absent == [exists |-> FALSE, content |-> <<>>]

FileOf(content) == [exists |-> TRUE, content |-> content]

\* a complete pgbench summary: 1000 tps at 2.0 ms (direct), 4000 tps at 0.5 ms
\* (pgbouncer), 2 clients x 5 transactions, all 10 processed
LogOK(conn_type) ==
    <<Line("number of clients: ", <<"2">>, FALSE),
      Line("number of transactions per client: ", <<"5">>, FALSE),
      Line("number of transactions actually processed: ", <<"1", "0">>, FALSE),
      Line("latency average = ",
           IF conn_type = "direct" THEN <<"2", ".", "0">> ELSE <<"0", ".", "5">>, TRUE),
      Line("latency stddev = ", <<"0", ".", "5">>, TRUE),
      Line("tps = ",
           IF conn_type = "direct" THEN <<"1", "0", "0", "0">>
           ELSE <<"4", "0", "0", "0">>, FALSE)>>

\* a file with no recognised marker (an empty or truncated log)
LogEmpty == <<>>

\* "FATAL:  sorry, too many clients already"
LogTooMany == <<Phrase("FATAL:"), Phrase("too many clients")>>

\* a malformed throughput line, "tps = 1.2.3"
LogBadTok == <<Line("tps = ", <<"1", ".", "2", ".", "3">>, FALSE)>>

LogChoice(f, k) ==
    CASE k = 1 -> Absent
      [] k = 2 -> FileOf(LogOK(f[2]))
      [] k = 3 -> FileOf(LogEmpty)
      [] k = 4 -> FileOf(LogTooMany)
      [] k = 5 -> FileOf(LogBadTok)

FsSet == {[f \in Files |-> LogChoice(f, pick[f])] : pick \in [Files -> 1..5]}

AllAbsent == [f \in Files |-> Absent]

----------------------------------------------------------------------------
(* Runs of main *)

SimpleUnset == [SimpleNone EXCEPT !.tag = "unset"]

DetailedUnset == [DetailedNone EXCEPT !.tag = "unset"]

Init ==
    /\ script \in {"simple", "detailed"}
    /\ argc \in 1..3
    /\ fs \in (IF argc < 3 THEN {AllAbsent} ELSE FsSet)
    /\ pc = "start"
    /\ idx = 0
    /\ reads = [f \in Files |-> 0]
    /\ all_results = [f \in Files |-> DetailedUnset]
    /\ direct_result = SimpleUnset
    /\ pgbouncer_result = SimpleUnset
    /\ ret = DetailedUnset
    /\ report = <<>>
    /\ reportState = "unopened"
    /\ stdout = <<>>
    /\ exc = "none"
    /\ excFile = NoFile
    /\ exitStatus = -1

\* ReadsAfter with the file read a second time by the same call
ReadsAfter_ReadTwice(f) ==
    IF fs[f].exists THEN [reads EXCEPT ![f] = @ + 2] ELSE reads

\* with open(filename, 'r') as f: content = f.read(), reached only when
\* os.path.exists(filename)
ReadsAfter(f) ==
    IF fs[f].exists THEN [reads EXCEPT ![f] = @ + 1] ELSE reads

\* an exception leaves the with block, which closes the report file, and ends
\* the process with a traceback and status 1
Crash(e, f) ==
    /\ pc' = "crashed"
    /\ exc' = e
    /\ excFile' = f
    /\ reportState' = "closed"
    /\ exitStatus' = 1

\* lines 36-38 (158-160): too few arguments
Usage ==
    /\ pc = "start"
    /\ argc < 3
    /\ stdout' = Append(stdout, L("Usage:", "", "", <<>>))
    /\ pc' = "exited"
    /\ exitStatus' = 1
    /\ UNCHANGED <<script, argc, fs, idx, reads, all_results, direct_result,
                   pgbouncer_result, ret, report, reportState, exc, excFile>>

\* lines 59-64 (181-193): open the report file for writing, write the header
OpenReport ==
    /\ pc = "start"
    /\ argc >= 3
    /\ reportState' = "open"
    /\ report' = (IF script = "simple" THEN SimpleHeader ELSE DetailedHeader)
    /\ pc' = (IF script = "simple" THEN "loop_direct" ELSE "parse_all")
    /\ idx' = 1
    /\ UNCHANGED <<script, argc, fs, reads, all_results, direct_result,
                   pgbouncer_result, ret, stdout, exc, excFile, exitStatus>>

\* direct_result = parse_pgbench_output(f), after writing the lines `before`
ParseIntoDirect(f, before, next) ==
    LET result == parse_pgbench_output(fs[f])
    IN  /\ report' = report \o before
        /\ reads' = ReadsAfter(f)
        /\ IF result.tag \in {"None", "record"}
           THEN /\ direct_result' = result
                /\ pc' = next
                /\ UNCHANGED <<exc, excFile, reportState, exitStatus>>
           ELSE /\ Crash(result.tag, f)
                /\ UNCHANGED direct_result
        /\ UNCHANGED <<script, argc, fs, idx, all_results, pgbouncer_result, ret,
                       stdout>>

\* pgbouncer_result = parse_pgbench_output(f)
ParseIntoPgbouncer(f, next) ==
    LET result == parse_pgbench_output(fs[f])
    IN  /\ reads' = ReadsAfter(f)
        /\ IF result.tag \in {"None", "record"}
           THEN /\ pgbouncer_result' = result
                /\ pc' = next
                /\ UNCHANGED <<exc, excFile, reportState, exitStatus>>
           ELSE /\ Crash(result.tag, f)
                /\ UNCHANGED pgbouncer_result
        /\ UNCHANGED <<script, argc, fs, idx, all_results, direct_result, ret,
                       report, stdout>>

\* lines 67-70
S_LoopDirect ==
    /\ script = "simple"
    /\ pc = "loop_direct"
    /\ ParseIntoDirect(<<Scenarios[idx], "direct">>,
                       <<L("TEST RESULTS", Scenarios[idx], "", <<>>)>>,
                       "loop_pgbouncer")

\* line 71
S_LoopPgbouncer ==
    /\ script = "simple"
    /\ pc = "loop_pgbouncer"
    /\ ParseIntoPgbouncer(<<Scenarios[idx], "pgbouncer">>, "loop_write")

\* lines 73-95, and the loop's next iteration
S_LoopWrite ==
    /\ script = "simple"
    /\ pc = "loop_write"
    /\ report' = report
                   \o SimpleScenarioLines(Scenarios[idx], direct_result, pgbouncer_result)
    /\ IF idx < 3
       THEN idx' = idx + 1 /\ pc' = "loop_direct"
       ELSE idx' = idx /\ pc' = "kf_overhead_direct"
    /\ UNCHANGED <<script, argc, fs, reads, all_results, direct_result,
                   pgbouncer_result, ret, reportState, stdout, exc, excFile,
                   exitStatus>>

\* lines 97-101
S_KfOverheadDirect ==
    /\ script = "simple"
    /\ pc = "kf_overhead_direct"
    /\ ParseIntoDirect(<<"overhead", "direct">>,
                       <<L("KEY FINDINGS", "", "", <<>>)>>,
                       "kf_overhead_pgbouncer")

\* line 102
S_KfOverheadPgbouncer ==
    /\ script = "simple"
    /\ pc = "kf_overhead_pgbouncer"
    /\ ParseIntoPgbouncer(<<"overhead", "pgbouncer">>, "kf_overhead_write")

\* lines 104-111
S_KfOverheadWrite ==
    /\ script = "simple"
    /\ pc = "kf_overhead_write"
    /\ LET findings == SimpleOverheadFindings(direct_result, pgbouncer_result)
       IN  /\ report' = report \o findings.lines
           /\ IF findings.raised
              THEN Crash("ZeroDivisionError", NoFile)
              ELSE /\ pc' = "kf_extreme_direct"
                   /\ UNCHANGED <<exc, excFile, reportState, exitStatus>>
    /\ UNCHANGED <<script, argc, fs, idx, reads, all_results, direct_result,
                   pgbouncer_result, ret, stdout>>

\* line 114
S_KfExtremeDirect ==
    /\ script = "simple"
    /\ pc = "kf_extreme_direct"
    /\ ParseIntoDirect(<<"extreme", "direct">>, <<>>, "kf_extreme_pgbouncer")

\* line 115
S_KfExtremePgbouncer ==
    /\ script = "simple"
    /\ pc = "kf_extreme_pgbouncer"
    /\ ParseIntoPgbouncer(<<"extreme", "pgbouncer">>, "kf_extreme_write")

\* lines 117-131, and the end of the with block, which closes the report file
S_KfExtremeWrite ==
    /\ script = "simple"
    /\ pc = "kf_extreme_write"
    /\ report' = report
                   \o SimpleExtremeFindings(direct_result, pgbouncer_result)
                   \o SimpleConclusion
    /\ reportState' = "closed"
    /\ pc' = "print_complete"
    /\ UNCHANGED <<script, argc, fs, idx, reads, all_results, direct_result,
                   pgbouncer_result, ret, stdout, exc, excFile, exitStatus>>

\* line 133 (241): the completion message, the last statement of the detailed main
PrintComplete ==
    /\ pc = "print_complete"
    /\ stdout' = Append(stdout,
                        IF script = "simple"
                        THEN L("Analysis complete! Summary saved to:", "", "", <<>>)
                        ELSE L("Detailed analysis complete! Report saved to:", "", "",
                               <<>>))
    /\ IF script = "simple"
       THEN pc' = "echo" /\ UNCHANGED exitStatus
       ELSE pc' = "done" /\ exitStatus' = 0
    /\ UNCHANGED <<script, argc, fs, idx, reads, all_results, direct_result,
                   pgbouncer_result, ret, report, reportState, exc, excFile>>

\* EchoLines that prints the empty line and not the content
EchoLines_NoContent(content) == <<L("", "", "", <<>>)>>

\* print("\n" + f.read()) on the report file's content
EchoLines(content) == <<L("", "", "", <<>>)>> \o content

\* lines 136-137: reopen the report file and print what it holds.  A file
\* still open for writing holds on disk nothing of what is buffered.
S_Echo ==
    /\ script = "simple"
    /\ pc = "echo"
    /\ stdout' = stdout \o EchoLines(IF reportState = "closed" THEN report ELSE <<>>)
    /\ pc' = "done"
    /\ exitStatus' = 0
    /\ UNCHANGED <<script, argc, fs, idx, reads, all_results, direct_result,
                   pgbouncer_result, ret, report, reportState, exc, excFile>>

FileOrder ==
    <<<<"overhead", "direct">>, <<"overhead", "pgbouncer">>,
      <<"concurrent", "direct">>, <<"concurrent", "pgbouncer">>,
      <<"extreme", "direct">>, <<"extreme", "pgbouncer">>>>

\* lines 196-201: one call of parse_pgbench_output_detailed
D_Parse ==
    /\ script = "detailed"
    /\ pc = "parse_all"
    /\ LET f == FileOrder[idx]
           result == parse_pgbench_output_detailed(fs[f])
       IN  /\ reads' = ReadsAfter(f)
           /\ IF result.tag \in {"None", "record"}
              THEN /\ all_results' = [all_results EXCEPT ![f] = result]
                   /\ IF idx < 6
                      THEN idx' = idx + 1 /\ pc' = "parse_all"
                      ELSE idx' = idx /\ pc' = "perf_summary"
                   /\ UNCHANGED <<exc, excFile, reportState, exitStatus>>
              ELSE /\ Crash(result.tag, f)
                   /\ UNCHANGED <<all_results, idx>>
    /\ UNCHANGED <<script, argc, fs, direct_result, pgbouncer_result, ret, report,
                   stdout>>

\* lines 204-215
D_PerfSummary ==
    /\ script = "detailed"
    /\ pc = "perf_summary"
    /\ report' = report \o PerformanceSummary(all_results)
    /\ pc' = "reliability"
    /\ UNCHANGED <<script, argc, fs, idx, reads, all_results, direct_result,
                   pgbouncer_result, ret, reportState, stdout, exc, excFile,
                   exitStatus>>

\* lines 218-222
D_Reliability ==
    /\ script = "detailed"
    /\ pc = "reliability"
    /\ report' = report \o ReliabilityAnalysis(all_results)
    /\ pc' = "comparative"
    /\ UNCHANGED <<script, argc, fs, idx, reads, all_results, direct_result,
                   pgbouncer_result, ret, reportState, stdout, exc, excFile,
                   exitStatus>>

\* lines 225-239, and the end of the with block, which closes the report file
D_Comparative ==
    /\ script = "detailed"
    /\ pc = "comparative"
    /\ report' = report \o ComparativeReliability(all_results)
    /\ reportState' = "closed"
    /\ pc' = "print_complete"
    /\ UNCHANGED <<script, argc, fs, idx, reads, all_results, direct_result,
                   pgbouncer_result, ret, stdout, exc, excFile, exitStatus>>

Next ==
    \/ Usage
    \/ OpenReport
    \/ S_LoopDirect
    \/ S_LoopPgbouncer
    \/ S_LoopWrite
    \/ S_KfOverheadDirect
    \/ S_KfOverheadPgbouncer
    \/ S_KfOverheadWrite
    \/ S_KfExtremeDirect
    \/ S_KfExtremePgbouncer
    \/ S_KfExtremeWrite
    \/ PrintComplete
    \/ S_Echo
    \/ D_Parse
    \/ D_PerfSummary
    \/ D_Reliability
    \/ D_Comparative

Spec == Init /\ [][Next]_vars

----------------------------------------------------------------------------
(* The parse functions and generate_reliability_report on their own: one    *)
(* log text drawn from three bounded families, one call of the parse        *)
(* function of the chosen script, and for the detailed script one call of   *)
(* generate_reliability_report on {'direct': <the result>}.                 *)

HarnessFile == <<"overhead", "direct">>

SeqsUpTo(S, n) == UNION {[1..k -> S] : k \in 0..n}

MarkerKeys ==
    {"tps = ", "latency average = ", "latency stddev = ", "scaling factor: ",
     "number of clients: ", "number of transactions per client: ",
     "number of transactions actually processed: "}

PhraseKeys ==
    {"connection refused", "Could Not Connect", "too many clients",
     "connection limit", "timeout", "authentication failed", "FATAL:", "ERROR:"}

TokChars == {"0", "1", "."}

\* malformed and partial text: one marker followed by any token of digits and
\* dots (or by none), with or without " ms" after it
TokenTexts ==
    {<<Line(k, t, m)>> :
        k \in MarkerKeys, t \in SeqsUpTo(TokChars, MaxTokLen), m \in BOOLEAN}

\* q quarters of a millisecond as pgbench-style text: 2, 2.25, 2.5, 2.75
FmtQuarters(q) ==
    ToDigits(q \div 4)
    \o (CASE q % 4 = 0 -> <<>>
          [] q % 4 = 1 -> <<".", "2", "5">>
          [] q % 4 = 2 -> <<".", "5">>
          [] q % 4 = 3 -> <<".", "7", "5">>)

OptLines(key, toks, ms) == {<<>>} \cup {<<Line(key, t, ms)>> : t \in toks}

\* latency mean and standard deviation, each absent or a multiple of 0.25 ms
LatencyTexts ==
    {lat \o dev :
        lat \in OptLines("latency average = ",
                         {FmtQuarters(q) : q \in 0..MaxQuarters}, TRUE),
        dev \in OptLines("latency stddev = ",
                         {FmtQuarters(q) : q \in 0..MaxQuarters}, TRUE)}

\* the transaction counts, each absent or a small integer, and error phrases
ReliabilityTexts ==
    {c \o t \o n \o e :
        c \in OptLines("number of clients: ",
                       {ToDigits(k) : k \in 0..MaxClients}, FALSE),
        t \in OptLines("number of transactions per client: ",
                       {ToDigits(k) : k \in 0..MaxTxPerClient}, FALSE),
        n \in OptLines("number of transactions actually processed: ",
                       {ToDigits(k) : k \in 0..MaxProcessed}, FALSE),
        e \in {[i \in 1..Len(ks) |-> Phrase(ks[i])] :
                  ks \in SeqsUpTo(PhraseKeys, MaxErrLines)}}

TextSet == TokenTexts \cup LatencyTexts \cup ReliabilityTexts

InitFn ==
    /\ script \in {"simple", "detailed"}
    /\ argc = 3
    /\ fs \in {[AllAbsent EXCEPT ![HarnessFile] = file] :
                  file \in {Absent} \cup {FileOf(text) : text \in TextSet}}
    /\ pc = "fn_call"
    /\ idx = 0
    /\ reads = [f \in Files |-> 0]
    /\ all_results = [f \in Files |-> DetailedUnset]
    /\ direct_result = SimpleUnset
    /\ pgbouncer_result = SimpleUnset
    /\ ret = DetailedUnset
    /\ report = <<>>
    /\ reportState = "open"
    /\ stdout = <<>>
    /\ exc = "none"
    /\ excFile = NoFile
    /\ exitStatus = -1

\* result = parse_pgbench_output(filename)
FnParseSimple ==
    /\ pc = "fn_call"
    /\ script = "simple"
    /\ ret' = parse_pgbench_output(fs[HarnessFile])
    /\ reads' = ReadsAfter(HarnessFile)
    /\ pc' = "fn_returned"
    /\ exc' = (IF ret'.tag \in {"None", "record"} THEN "none" ELSE ret'.tag)
    /\ UNCHANGED <<script, argc, fs, idx, all_results, direct_result,
                   pgbouncer_result, report, reportState, stdout, excFile,
                   exitStatus>>

\* result = parse_pgbench_output_detailed(filename)
FnParseDetailed ==
    /\ pc = "fn_call"
    /\ script = "detailed"
    /\ ret' = parse_pgbench_output_detailed(fs[HarnessFile])
    /\ reads' = ReadsAfter(HarnessFile)
    /\ pc' = "fn_returned"
    /\ exc' = (IF ret'.tag \in {"None", "record"} THEN "none" ELSE ret'.tag)
    /\ UNCHANGED <<script, argc, fs, idx, all_results, direct_result,
                   pgbouncer_result, report, reportState, stdout, excFile,
                   exitStatus>>

\* generate_reliability_report({'direct': result}, 'overhead', f)
FnReport ==
    /\ pc = "fn_returned"
    /\ script = "detailed"
    /\ exc = "none"
    /\ report' = report
                   \o generate_reliability_report(<<<<"direct", ret>>>>, "overhead")
    /\ pc' = "fn_reported"
    /\ UNCHANGED <<script, argc, fs, idx, reads, all_results, direct_result,
                   pgbouncer_result, ret, reportState, stdout, exc, excFile,
                   exitStatus>>

NextFn ==
    \/ FnParseSimple
    \/ FnParseDetailed
    \/ FnReport

SpecFn == InitFn /\ [][NextFn]_vars

----------------------------------------------------------------------------
(* Properties.  The harness input and what the claims say about it are      *)
(* stated on integers, by cross-multiplication, apart from the operators    *)
(* that model the code.                                                     *)

Input == fs[HarnessFile].content

MarkerIn(key) == \E i \in 1..Len(Input) : Input[i].key = key

Returned == pc \in {"fn_returned", "fn_reported"}

Evaluated == Returned /\ script = "detailed" /\ ret.tag = "record"

KindsIn(lines) == {lines[i].kind : i \in 1..Len(lines)}

LinesAbout(lines, f) ==
    SelectSeq(lines, LAMBDA l : l.scen = f[1] /\ l.strat = f[2])

\* C1: metric extraction never raises: every call of parse_pgbench_output and
\* parse_pgbench_output_detailed on a log text, malformed or partial text
\* included, returns a record, and every field whose marker does not occur in
\* the text is 0.
C1_ExtractionNeverRaises ==
    (Returned /\ fs[HarnessFile].exists) =>
        /\ ret.tag = "record"
        /\ ~MarkerIn("tps = ") => IsZero(ret.tps)
        /\ ~MarkerIn("latency average = ") => IsZero(ret.latency)
        /\ script = "detailed" =>
              /\ ~MarkerIn("latency stddev = ") => IsZero(ret.latency_stddev)
              /\ ~MarkerIn("number of clients: ") => ret.clients = 0
              /\ ~MarkerIn("number of transactions per client: ") =>
                     ret.transactions_per_client = 0
              /\ ~MarkerIn("number of transactions actually processed: ") =>
                     ret.transactions_processed = 0

\* what C7 says the success rate's side of the flag is: successRate < 95, with
\* successRate = processed / attempted x 100, and 0 when nothing was attempted
RateBelow95(r) ==
    IF r.total_transactions_attempted > 0
    THEN 100 * r.transactions_processed < 95 * r.total_transactions_attempted
    ELSE TRUE

RateIs95(r) ==
    /\ r.total_transactions_attempted > 0
    /\ 100 * r.transactions_processed = 95 * r.total_transactions_attempted

NoErrorCounts(r) == \A k \in 1..6 : ErrorCount(r.error_types, ErrorTypeNames[k]) = 0

\* C7: hasCriticalErrors of every evaluated result equals (connectionRefused > 0
\* or tooManyClients > 0 or fatalErrors > 0 or successRate < 95); it is true
\* whenever successRate < 95 even with all six error counts 0, and a
\* successRate of exactly 95 with no rejection or fatal count is not critical.
C7_HasCriticalErrors ==
    Evaluated =>
        /\ ret.has_critical_errors <=>
              \/ ret.error_types.connection_refused > 0
              \/ ret.error_types.too_many_clients > 0
              \/ ret.error_types.fatal_errors > 0
              \/ RateBelow95(ret)
        /\ (RateBelow95(ret) /\ NoErrorCounts(ret)) => ret.has_critical_errors
        /\ (/\ RateIs95(ret)
            /\ ret.error_types.connection_refused = 0
            /\ ret.error_types.too_many_clients = 0
            /\ ret.error_types.fatal_errors = 0) => ~ret.has_critical_errors

\* C7's case: a success rate above 0 and below 95 with all six counts 0,
\* flagged critical
C7_Witness ==
    /\ Evaluated
    /\ NoErrorCounts(ret)
    /\ ret.transactions_processed > 0
    /\ ret.total_transactions_attempted > 0
    /\ RateBelow95(ret)
    /\ ret.has_critical_errors

\* C8: evaluation never divides by zero: when totalAttempted = clientCount x
\* transactionsPerClient is 0 the successRate is exactly 0 and the errorRate
\* exactly 100, and timeoutRate is timeoutErrors / max(1, totalAttempted) x 100;
\* when totalAttempted > 0, successRate = transactionsProcessed /
\* totalAttempted x 100 and errorRate = 100 - successRate.
C8_NoDivisionByZero ==
    (Returned /\ script = "detailed") =>
        /\ ret.tag # "ZeroDivisionError"
        /\ ret.tag = "record" =>
              LET total == ret.total_transactions_attempted
                  processed == ret.transactions_processed
                  sr == ret.success_rate
                  er == ret.error_rate
                  tr == ret.timeout_rate
              IN  /\ total = ret.clients * ret.transactions_per_client
                  /\ sr[2] > 0 /\ er[2] > 0 /\ tr[2] > 0
                  /\ total = 0 => (sr[1] = 0 /\ er[1] = 100 * er[2])
                  /\ total > 0 =>
                        /\ sr[1] * total = 100 * processed * sr[2]
                        /\ er[1] * total = (100 * total - 100 * processed) * er[2]
                  /\ tr[1] * Max(1, total)
                        = 100 * ret.error_types.timeout_errors * tr[2]

\* C8's case: nothing attempted, yet transactions processed and a timeout counted
C8_Witness ==
    /\ Evaluated
    /\ ret.total_transactions_attempted = 0
    /\ ret.transactions_processed > 0
    /\ ret.error_types.timeout_errors > 0
    /\ ret.success_rate[1] = 0

\* cv = latencyStdDev / latencyMean x 100 against a threshold, on integers
CvAbove(r, threshold) ==
    100 * r.latency_stddev[1] * r.latency[2]
        > threshold * r.latency_stddev[2] * r.latency[1]

\* C9: consistencyRating is Good when latencyStdDev = 0 or latencyMean = 0;
\* otherwise, with cv = latencyStdDev / latencyMean x 100, it is Poor iff
\* cv > 50, Fair iff 25 < cv <= 50 and Good iff cv <= 25: a cv of exactly 50
\* rates Fair and a cv of exactly 25 rates Good.
C9_ConsistencyRating ==
    Evaluated =>
        IF ret.latency_stddev[1] = 0 \/ ret.latency[1] = 0
        THEN ret.performance_consistency = "Good"
        ELSE /\ ret.performance_consistency = "Poor" <=> CvAbove(ret, 50)
             /\ ret.performance_consistency = "Fair" <=>
                    (CvAbove(ret, 25) /\ ~CvAbove(ret, 50))
             /\ ret.performance_consistency = "Good" <=> ~CvAbove(ret, 25)

\* C9's case: a cv of exactly 50 (the mean twice the deviation), rated Fair
C9_Witness ==
    /\ Evaluated
    /\ ret.latency[1] > 0
    /\ 100 * ret.latency_stddev[1] * ret.latency[2]
          = 50 * ret.latency_stddev[2] * ret.latency[1]
    /\ ret.performance_consistency = "Fair"

Labels ==
    {"CRITICAL ERRORS DETECTED", "EXCELLENT RELIABILITY", "GOOD RELIABILITY",
     "POOR RELIABILITY"}

LabelsWritten == KindsIn(report) \cap Labels

\* C10: in the reliability detail block the POOR RELIABILITY label is never
\* emitted for an evaluated result; the label is CRITICAL exactly when
\* hasCriticalErrors, EXCELLENT exactly when there are no critical errors and
\* successRate >= 99, GOOD exactly when there are no critical errors and
\* 95 <= successRate < 99; a log with no recognised marker (totalAttempted = 0)
\* is labelled CRITICAL.
C10_PoorLabelNeverEmitted ==
    (pc = "fn_reported" /\ ret.tag = "record") =>
        LET total == ret.total_transactions_attempted
            processed == ret.transactions_processed
            atLeast99 == total > 0 /\ 100 * processed >= 99 * total
            atLeast95 == total > 0 /\ 100 * processed >= 95 * total
        IN  /\ "POOR RELIABILITY" \notin KindsIn(report)
            /\ Cardinality(LabelsWritten) = 1
            /\ report[Len(report)].kind \in Labels
            /\ "CRITICAL ERRORS DETECTED" \in LabelsWritten <=> ret.has_critical_errors
            /\ "EXCELLENT RELIABILITY" \in LabelsWritten <=>
                   (~ret.has_critical_errors /\ atLeast99)
            /\ "GOOD RELIABILITY" \in LabelsWritten <=>
                   (~ret.has_critical_errors /\ atLeast95 /\ ~atLeast99)
            /\ ~atLeast95 => "CRITICAL ERRORS DETECTED" \in LabelsWritten
            /\ total = 0 => "CRITICAL ERRORS DETECTED" \in LabelsWritten
            /\ Input = <<>> => LabelsWritten = {"CRITICAL ERRORS DETECTED"}

\* C10's case: a result whose rate alone (below 95, no error count) would have
\* earned the POOR label, written out as CRITICAL
C10_Witness ==
    /\ pc = "fn_reported"
    /\ ret.tag = "record"
    /\ NoErrorCounts(ret)
    /\ ret.total_transactions_attempted > 0
    /\ RateBelow95(ret)
    /\ LabelsWritten = {"CRITICAL ERRORS DETECTED"}

----------------------------------------------------------------------------
(* Properties of whole runs *)

Finished == pc = "done"

RatioKinds ==
    {"  TPS Improvement:", "  Latency Improvement:",
     "- PgBouncer achieved x the throughput", "- PgBouncer reduced latency by"}

\* C2: every throughput-ratio and latency-improvement figure computed from a
\* direct and a pooled result is guarded: with a divisor of 0 the figure is
\* omitted and no division by zero occurs, in the per-scenario section and in
\* the key-findings section alike.
C2_RatiosGuarded ==
    script = "simple" =>
        /\ exc # "ZeroDivisionError"
        /\ \A i \in 1..Len(report) :
              report[i].kind \in RatioKinds => report[i].args[2] # 0

RereadInKeyFindings(f) == script = "simple" /\ f[1] \in {"overhead", "extreme"}

NarrativeWritten ==
    /\ "- Direct connections FAILED as expected (connection limit exceeded)"
           \in KindsIn(report)
    /\ "- This demonstrates PgBouncer's ability to handle connection multiplexing"
           \in KindsIn(report)

DirectRejected ==
    LET direct == parse_pgbench_output_detailed(fs[<<"extreme", "direct">>])
    IN  /\ direct.tag = "record"
        /\ \/ direct.error_types.connection_refused > 0
           \/ direct.error_types.too_many_clients > 0

PooledClean ==
    /\ fs[<<"extreme", "pgbouncer">>].exists
    /\ SimpleOK(parse_pgbench_output(fs[<<"extreme", "pgbouncer">>]))

\* C4: for the extreme-load scenario the report carries the capacity
\* demonstration narrative exactly when the direct result has critical errors
\* caused by connection rejection (connectionRefused or tooManyClients count
\* > 0) and the pooled result exists and has no critical errors.
C4_CapacityNarrative ==
    (Finished /\ script = "simple") =>
        (NarrativeWritten <=> (DirectRejected /\ PooledClean))

NoDataKinds == {"NO DATA"}

ComparisonKinds ==
    RatioKinds \cup
    {"Test Comparison:", "  Direct Success Rate:", "  PgBouncer Success Rate:",
     "  Reliability Improvement:", "  PgBouncer eliminated connection rejections"}

ComparisonLinesOf(scen) ==
    SelectSeq(report, LAMBDA l : l.scen = scen /\ l.kind \in ComparisonKinds)

\* C5 as claimed: each absent (scenario, strategy) result is rendered as an
\* explicit "NO DATA" marker in every section that lists that strategy for that
\* scenario, and a scenario with either side absent gets no numeric comparison
\* line.
C5_NoDataInEverySection ==
    (Finished /\ script = "detailed") =>
        \A f \in Files :
            ~fs[f].exists =>
                /\ LinesAbout(report, f) # <<>>
                /\ KindsIn(LinesAbout(report, f)) \subseteq NoDataKinds
                /\ ComparisonLinesOf(f[1]) = <<>>

\* C5 as amended: a missing log file never ends the run (only a malformed
\* number in an existing file, or the key findings' division over two existing
\* overhead files, does); in a completed run of the detailed script each absent
\* result is rendered once as "NO DATA", in the reliability section, and once
\* as "FAILED or POOR RELIABILITY", in the performance summary, and its
\* scenario gets no comparison line; in a completed run of the simple script it
\* is rendered once as "FAILED or ERRORS" and its scenario gets no improvement
\* or ratio line.
C5_MissingFilesRendered ==
    /\ pc = "crashed" =>
          \/ exc = "ValueError" /\ excFile \in Files /\ fs[excFile].exists
          \/ /\ exc = "ZeroDivisionError"
             /\ fs[<<"overhead", "direct">>].exists
             /\ fs[<<"overhead", "pgbouncer">>].exists
    /\ Finished =>
          \A f \in Files :
              ~fs[f].exists =>
                  /\ ComparisonLinesOf(f[1]) = <<>>
                  /\ IF script = "detailed"
                     THEN /\ Len(LinesAbout(report, f)) = 2
                          /\ LinesAbout(report, f)[1].kind = "FAILED or POOR RELIABILITY"
                          /\ LinesAbout(report, f)[2].kind = "NO DATA"
                     ELSE /\ Len(LinesAbout(report, f)) = 1
                          /\ LinesAbout(report, f)[1].kind
                                 = (IF f[2] = "direct"
                                    THEN "Direct Connection: FAILED or ERRORS"
                                    ELSE "PgBouncer Connection: FAILED or ERRORS")

\* C5's case: a completed run of the detailed script with one side of a
\* scenario absent and the other present, and a scenario with both absent
C5_Witness ==
    /\ Finished
    /\ script = "detailed"
    /\ ~fs[<<"overhead", "direct">>].exists
    /\ fs[<<"overhead", "pgbouncer">>].exists
    /\ ~fs[<<"extreme", "direct">>].exists
    /\ ~fs[<<"extreme", "pgbouncer">>].exists
    /\ fs[<<"concurrent", "direct">>].exists
    /\ fs[<<"concurrent", "pgbouncer">>].exists

\* the last Len(report) lines printed are the report's lines
ReportEchoed ==
    /\ Len(stdout) >= Len(report)
    /\ \A i \in 1..Len(report) : stdout[Len(stdout) - Len(report) + i] = report[i]

====
